---- MODULE Spec2Model ----
(***************************************************************************)
(* The request-routing workflow of backend/graphs/multimodal_graph.py:     *)
(* MultimodalChatbotGraph.process_message runs one MultimodalState through *)
(* the LangGraph nodes input_processing, route_request, one operation      *)
(* node, and response_synthesis or error_handling, and returns an          *)
(* envelope dict.                                                          *)
(*                                                                         *)
(* Python strings are sequences of atoms: a question is a sequence of      *)
(* one-character atoms, a fixed piece of text of the code is one atom, and *)
(* an f-string is the concatenation of its pieces. "" is << >>.            *)
(***************************************************************************)
EXTENDS Integers, Sequences, FiniteSets, TLC

\* pc        where the request is: "idle", a graph node, "END" (ainvoke has
\*           returned), or "done" (process_message has returned)
\* args      the arguments process_message was called with
\* state     the MultimodalState threaded through the nodes
\* envelope  the dict process_message returned
\* calls     the collaborator calls made for the request, in order
\* uuids     how many uuid4 identifiers the process has drawn
\* clock     time.time(), in ticks
\* failures  the steps at which something failed, in order
\* decision  what _route_decision returned ("" before routing)
\* http      the HTTP exchange of routers/chat.py around the request: the
\*           endpoint, the request received, the status and detail answered
\* conversation_history  the ConversationalChain instance's history list
\* chain_calls  how many times ConversationalChain._call has run since Init
\* last_call  the latest chain call: its inputs, what it sent to the model,
\*            and what it returned or raised
\* singletons  the module-level chain instances of chains/multimodal_chain.py
\*             and the threads that are inside one of the get_* functions
\* resize  the latest call of resize_image: its arguments, the size it
\*         computed and the bytes it returned
VARIABLES pc, args, state, envelope, calls, uuids, clock, failures, decision,
          http, conversation_history, chain_calls, last_call, singletons,
          resize

vars == <<pc, args, state, envelope, calls, uuids, clock, failures, decision,
          http, conversation_history, chain_calls, last_call, singletons,
          resize>>

\* The state of the chain objects of chains/multimodal_chain.py.
chainVars == <<conversation_history, chain_calls, last_call, singletons>>

\* The state of one request in the graph and at the HTTP boundary.
requestVars == <<pc, args, state, envelope, calls, uuids, clock, failures,
                 decision, http, resize>>

\* What the graph and process_message never touch.
outsideGraph == <<http, conversation_history, chain_calls, last_call, singletons,
                  resize>>

\* ------------------------------------------------------------------ bounds

\* Most calls of ConversationalChain._call in one behaviour.
MaxChainCalls == 3

\* Largest width, height and maximum box side given to resize_image.
MaxSide == 6

\* Threads that call the get_* functions, and the calls they make in all.
GetterThreads == 2
MaxGetterCalls == 3

\* Most turns a conversation has behind it when a behaviour starts.
MaxPriorTurns == 4

\* Longest question enumerated exhaustively over QuestionChars; the questions
\* that hold a generation keyword, or just miss one, are in KeywordQuestions.
MaxQuestionLen == 2

\* ----------------------------------------------------------- Python values

\* Python's None, kept apart from every string of the model.
None == <<"None">>

\* bool(v) of an Optional[str] / bytes value.
Truthy(v) == v # None /\ v # << >>

\* `a or b`
Or(a, b) == IF Truthy(a) THEN a ELSE b

\* needle in hay
Contains(hay, needle) ==
    \E i \in 0..(Len(hay) - Len(needle)) :
        SubSeq(hay, i + 1, i + Len(needle)) = needle

Uppers == <<"A","B","C","D","E","F","G","H","I","J","K","L","M",
            "N","O","P","Q","R","S","T","U","V","W","X","Y","Z">>
Lowers == <<"a","b","c","d","e","f","g","h","i","j","k","l","m",
            "n","o","p","q","r","s","t","u","v","w","x","y","z">>

LowerChar(c) ==
    IF \E i \in 1..Len(Uppers) : Uppers[i] = c
    THEN Lowers[CHOOSE i \in 1..Len(Uppers) : Uppers[i] = c]
    ELSE c

\* str.lower()
Lower(s) == [i \in 1..Len(s) |-> LowerChar(s[i])]

\* str(uuid.uuid4()): the n-th identifier generated in this process.
Uuid4(n) == <<"uuid4", ToString(n)>>

\* MessageType enum
MessageTypes == {"text", "image", "multimodal"}

\* ------------------------------------------------------------------ images

\* Image bytes: <<format, width, height, generation>>; generation counts the
\* lossy JPEG saves the bytes went through. A "corrupt" format does not decode.
MAX_WIDTH == 1024
MAX_HEIGHT == 1024

CorruptBytes == <<"corrupt", 0, 0, 0>>
RawImages == { <<"png", 2048, 1024, 0>>, <<"jpeg", 640, 480, 0>>, CorruptBytes }

Decodable(b) == b[1] # "corrupt"

\* resize_image: the size it computes for an image that exceeds the box.
\* int(max_width / aspect_ratio) and int(max_height * aspect_ratio) are taken
\* in exact arithmetic.
ResizeTarget(width, height, max_width, max_height) ==
    IF width > height
    THEN <<max_width, (max_width * height) \div width>>
    ELSE <<(max_height * width) \div height, max_height>>

resize_image(b, max_width, max_height) ==
    IF ~Decodable(b) THEN b
    ELSE LET width == b[2]
             height == b[3]
             new_width == ResizeTarget(width, height, max_width, max_height)[1]
             new_height == ResizeTarget(width, height, max_width, max_height)[2]
         IN IF width > max_width \/ height > max_height
            THEN IF new_width >= 1 /\ new_height >= 1
                 THEN <<"jpeg", new_width, new_height, b[4] + 1>>
                 ELSE b
            ELSE <<"jpeg", width, height, b[4] + 1>>

convert_to_jpeg(b) ==
    IF ~Decodable(b) THEN b ELSE <<"jpeg", b[2], b[3], b[4] + 1>>

encode_image_to_base64(b) == <<"b64">> \o b

process_image_for_bedrock(b) ==
    encode_image_to_base64(convert_to_jpeg(resize_image(b, MAX_WIDTH, MAX_HEIGHT)))

\* What get_image_from_url can return: None on any failure, else the body.
FetchResults == {None} \cup RawImages

\* ------------------------------------------------------------- input sets

QuestionChars == {"d", "r", "a", "w", "D"}

ShortQuestions == UNION { [1..n -> QuestionChars] : n \in 0..MaxQuestionLen }

KeywordQuestions ==
    { <<"h","i">>,
      <<"d","r","a","w">>,
      <<"D","R","A","W">>,
      <<"d","r","a">>,
      <<"d","r"," ","a","w">>,
      <<"D","r","A","w"," ","i","t">>,
      <<"r","e","d","r","a","w","n">>,
      <<"g","e","n","e","r","a","t","e">>,
      <<"G","E","N","E","R","A","T","E"," ","I","M","A","G","E">>,
      <<"g","e","n","e","r","a","t"," ","e">>,
      <<"c","r","e","a","t","e"," ","i","t">>,
      <<"c","r","e","a","t">>,
      <<"m","a","k","e"," ","a","n"," ","i","m","a","g","e">>,
      <<"M","a","k","e"," ","a","n"," ","I","m","a","g","e","!">>,
      <<"m","a","k","e"," ","a"," ","i","m","a","g","e">> }

Questions == ShortQuestions \cup KeywordQuestions

ImageUrls == {None, <<"https://", "host/cat.png">>}
InlineImages == {None, <<"b64">> \o <<"png", 2048, 1024, 0>>}
SessionIds == {None, << >>, <<"session-1">>}

\* ------------------------------------------------- module namespace, errors

\* The names bound in graphs/multimodal_graph.py's module namespace by its
\* imports from chains, services and utils.
GraphModuleGlobals ==
    { "get_multimodal_chain", "get_image_analysis_chain",
      "get_conversational_chain", "get_image_generation_chain",
      "bedrock_service", "s3_service",
      "get_image_from_url", "process_image_for_bedrock", "MessageType" }

\* str(NameError) for an unbound global.
NameError(name) == <<"name '", name, "' is not defined">>

\* str(KeyError(key))
KeyError(key) == <<"'", key, "'">>

\* What a chain's run() can do once it is reached: return a result or raise
\* the provider's error.
ChainReplies ==
    { [raised |-> FALSE, text |-> <<"model output">>, msg |-> << >>],
      [raised |-> FALSE, text |-> << >>, msg |-> << >>],
      [raised |-> TRUE, text |-> << >>, msg |-> <<"ThrottlingException">>] }

\* Evaluating `<name>.run(inputs)` inside a node: an unbound name raises
\* NameError before anything is called.
RunChain(name, reply) ==
    IF name \in GraphModuleGlobals
    THEN reply
    ELSE [raised |-> TRUE, text |-> << >>, msg |-> NameError(name)]

\* The calls a `<name>.run(inputs)` expression sends to a collaborator.
ChainCalls(name, callee, prompt, reply) ==
    IF name \in GraphModuleGlobals
    THEN << [callee |-> callee, arg |-> prompt, ok |-> ~reply.raised] >>
    ELSE << >>

\* What self.app.ainvoke can raise past the nodes' own handlers.
GraphErrors == { <<"graph runtime error">> }

\* ------------------------------------------------------------------- nodes

OperationNodes == {"image_analysis", "text_generation", "image_generation"}
GraphNodes == {"input_processing", "route_request", "response_synthesis",
               "error_handling"} \cup OperationNodes

HumanMessage(content) == <<"human", content>>
AIMessage(content) == <<"ai", content>>

\* process_message: the initial MultimodalState.
InitialState(question, image_url, image_data, session_id, message_type, n, now) ==
    [ messages |-> << >>,
      question |-> question,
      image_url |-> image_url,
      image_data |-> image_data,
      message_type |-> message_type,
      session_id |-> Or(session_id, Uuid4(n)),
      response |-> << >>,
      metadata |-> ("start_time" :> now),
      processing_steps |-> << >>,
      error |-> None,
      requires_image_analysis |-> FALSE,
      requires_text_generation |-> FALSE,
      requires_image_generation |-> FALSE ]

GENERATE_IMAGE_PHRASE == <<"g","e","n","e","r","a","t","e"," ","i","m","a","g","e">>

\* _process_input, with `fetched` the value get_image_from_url returns when
\* it is called. Result: the state, the collaborator calls made, and whether
\* the node set error.
ProcessInputFailing(st, fetched) ==
    LET s1 == [st EXCEPT !.processing_steps = Append(@, "input_processing")]
    IN [ st |-> [s1 EXCEPT !.error = <<"Failed to process image from URL">>],
         calls |-> << [callee |-> "get_image_from_url", arg |-> s1.image_url, ok |-> FALSE] >>,
         failed |-> TRUE ]

ProcessInputNormal(st, fetched) ==
    LET s1 == [st EXCEPT !.processing_steps = Append(@, "input_processing")]
        s2 == IF Truthy(s1.image_url)
              THEN [s1 EXCEPT !.image_data = process_image_for_bedrock(fetched),
                              !.message_type = "multimodal"]
              ELSE s1
        cs == IF Truthy(s1.image_url)
              THEN << [callee |-> "get_image_from_url", arg |-> s1.image_url, ok |-> TRUE],
                      [callee |-> "process_image_for_bedrock", arg |-> fetched, ok |-> TRUE] >>
              ELSE << >>
    IN [ st |-> [s2 EXCEPT
                   !.requires_image_analysis = Truthy(s2.image_data),
                   !.requires_text_generation = TRUE,
                   !.requires_image_generation =
                        Contains(Lower(s2.question), GENERATE_IMAGE_PHRASE),
                   !.messages = Append(@, HumanMessage(s2.question))],
         calls |-> cs,
         failed |-> FALSE ]

\* _process_input marking every request that holds an image as MULTIMODAL.
ProcessInputImageIsMultimodal(st, fetched) ==
    IF Truthy(st.image_url) /\ ~Truthy(fetched)
    THEN ProcessInputFailing(st, fetched)
    ELSE LET o == ProcessInputNormal(st, fetched)
         IN IF Truthy(o.st.image_data)
            THEN [o EXCEPT !.st.message_type = "multimodal"]
            ELSE o

\* _process_input dropping the stored image when the fetch fails.
ProcessInputClearingImage(st, fetched) ==
    IF Truthy(st.image_url) /\ ~Truthy(fetched)
    THEN LET o == ProcessInputFailing(st, fetched)
         IN [o EXCEPT !.st.image_data = None]
    ELSE ProcessInputNormal(st, fetched)

\* _process_input fetching the URL a second time after a failed fetch.
ProcessInputRetrying(st, fetched) ==
    IF Truthy(st.image_url) /\ ~Truthy(fetched)
    THEN LET o == ProcessInputFailing(st, fetched)
         IN [o EXCEPT !.calls = @ \o @]
    ELSE ProcessInputNormal(st, fetched)

ProcessInput(st, fetched) ==
    IF Truthy(st.image_url) /\ ~Truthy(fetched)
    THEN ProcessInputFailing(st, fetched)
    ELSE ProcessInputNormal(st, fetched)

GENERATION_KEYWORDS ==
    { <<"g","e","n","e","r","a","t","e">>,
      <<"c","r","e","a","t","e">>,
      <<"d","r","a","w">>,
      <<"m","a","k","e"," ","a","n"," ","i","m","a","g","e">> }

\* _route_request with the image test dropped from the second branch.
RouteRequestAnalysisWithoutImage(st) ==
    LET s1 == [st EXCEPT !.processing_steps = Append(@, "routing")]
        question_lower == Lower(s1.question)
    IN IF Truthy(s1.error) THEN s1
       ELSE IF \E keyword \in GENERATION_KEYWORDS : Contains(question_lower, keyword)
            THEN [s1 EXCEPT !.requires_image_generation = TRUE]
       ELSE [s1 EXCEPT !.requires_image_analysis = TRUE]

\* _route_request
RouteRequest(st) ==
    LET s1 == [st EXCEPT !.processing_steps = Append(@, "routing")]
        question_lower == Lower(s1.question)
    IN IF Truthy(s1.error) THEN s1
       ELSE IF \E keyword \in GENERATION_KEYWORDS : Contains(question_lower, keyword)
            THEN [s1 EXCEPT !.requires_image_generation = TRUE]
       ELSE IF Truthy(s1.image_data)
            THEN [s1 EXCEPT !.requires_image_analysis = TRUE]
       ELSE [s1 EXCEPT !.requires_text_generation = TRUE]

\* _route_decision with the two requires_* tests in the other order.
RouteDecisionAnalysisFirst(st) ==
    IF Truthy(st.error) THEN "error"
    ELSE IF st.requires_image_analysis THEN "image_analysis"
    ELSE IF st.requires_image_generation THEN "image_generation"
    ELSE "text_generation"

\* _route_decision
RouteDecision(st) ==
    IF Truthy(st.error) THEN "error"
    ELSE IF st.requires_image_generation THEN "image_generation"
    ELSE IF st.requires_image_analysis THEN "image_analysis"
    ELSE "text_generation"

\* add_conditional_edges with "error" mapped to the text node.
ConditionalEdgeErrorToText(d) == IF d = "error" THEN "text_generation" ELSE d

\* add_conditional_edges: the node a decision leads to.
ConditionalEdge(d) == IF d = "error" THEN "error_handling" ELSE d

\* add_edge with error_handling's edge naming a node that does not exist.
NextNodeDanglingErrorEdge(node) ==
    CASE node = "input_processing" -> "route_request"
      [] node \in OperationNodes -> "response_synthesis"
      [] node = "response_synthesis" -> "END"
      [] node = "error_handling" -> "end"

\* add_edge with image_analysis chained into text_generation.
NextNodeChainedOperations(node) ==
    CASE node = "input_processing" -> "route_request"
      [] node = "image_analysis" -> "text_generation"
      [] node \in OperationNodes \ {"image_analysis"} -> "response_synthesis"
      [] node = "response_synthesis" -> "END"
      [] node = "error_handling" -> "END"

\* add_edge with error_handling leading into response_synthesis.
NextNodeErrorThenSynthesis(node) ==
    CASE node = "input_processing" -> "route_request"
      [] node \in OperationNodes -> "response_synthesis"
      [] node = "response_synthesis" -> "END"
      [] node = "error_handling" -> "response_synthesis"

\* add_edge: the node (or END) that follows a node unconditionally.
NextNode(node) ==
    CASE node = "input_processing" -> "route_request"
      [] node \in OperationNodes -> "response_synthesis"
      [] node = "response_synthesis" -> "END"
      [] node = "error_handling" -> "END"

\* A node's outcome: the state it returns, the collaborator calls it made,
\* whether it set error, and how many uuid4 identifiers it drew.
Outcome(st, cs, failed, drawn) ==
    [st |-> st, calls |-> cs, failed |-> failed, drawn |-> drawn]

\* generate_text_tool.invoke({"prompt": prompt}): the tool traps what the
\* chain raises and returns {"error": ...} instead of {"response", "metadata"}.
generate_text_tool(prompt, reply, n) ==
    LET r == RunChain("get_conversational_chain", reply)
    IN IF r.raised
       THEN ("error" :> r.msg)
       ELSE ("response" :> r.text) @@
            ("metadata" :> [session_id |-> Uuid4(n), model_used |-> <<"claude">>])

\* _analyze_image
AnalyzeImage(st, reply, reply2, n) ==
    LET s1 == [st EXCEPT !.processing_steps = Append(@, "image_analysis")]
        custom_prompt ==
            <<"Analyze this image in the context of this question: ">> \o s1.question
        result == RunChain("image_analysis_chain", reply)
        c1 == ChainCalls("image_analysis_chain", "analyze_image",
                         <<s1.image_data, custom_prompt>>, reply)
        s2 == [s1 EXCEPT !.metadata =
                  ("image_analysis" :> result.text) @@
                  ("image_analysis_metadata" :>
                       [analysis_type |-> "general", prompt_used |-> custom_prompt]) @@ @]
        prompt == <<"User Question: ">> \o s1.question \o
                  <<"Image Analysis: ">> \o result.text \o
                  <<"Please provide a comprehensive answer based on the user's question and the image analysis.">>
        text_result == generate_text_tool(prompt, reply2, n)
        c2 == ChainCalls("get_conversational_chain", "generate_text", prompt, reply2)
    IN IF ~Truthy(s1.image_data)
       THEN Outcome([s1 EXCEPT !.error = <<"No image data available for analysis">>],
                    << >>, TRUE, 0)
       ELSE IF result.raised
       THEN Outcome([s1 EXCEPT !.error = result.msg], c1, TRUE, 0)
       ELSE IF "response" \notin DOMAIN text_result
       THEN Outcome([s2 EXCEPT !.error = KeyError("response")], c1 \o c2, TRUE, 1)
       ELSE Outcome([s2 EXCEPT !.response = text_result["response"],
                               !.metadata = ("text_generation" :> text_result["metadata"]) @@ @],
                    c1 \o c2, FALSE, 1)

\* _generate_text
GenerateText(st, reply) ==
    LET s1 == [st EXCEPT !.processing_steps = Append(@, "text_generation")]
        result == RunChain("conversational_chain", reply)
        cs == ChainCalls("conversational_chain", "generate_text", s1.question, reply)
    IN IF result.raised
       THEN Outcome([s1 EXCEPT !.error = result.msg], cs, TRUE, 0)
       ELSE Outcome([s1 EXCEPT !.response = result.text,
                               !.metadata = ("text_generation" :>
                                    [session_id |-> s1.session_id,
                                     model_used |-> <<"claude">>]) @@ @],
                    cs, FALSE, 0)

\* _generate_image
GenerateImage(st, reply) ==
    LET s1 == [st EXCEPT !.processing_steps = Append(@, "image_generation")]
        prompt == s1.question
        result == RunChain("image_generation_chain", reply)
        cs == ChainCalls("image_generation_chain", "generate_image", prompt, reply)
    IN IF result.raised
       THEN Outcome([s1 EXCEPT !.error = result.msg], cs, TRUE, 0)
       ELSE Outcome([s1 EXCEPT
                       !.metadata = ("image_generation" :>
                                        [generation_type |-> "realistic",
                                         original_prompt |-> prompt]) @@
                                    ("generated_images" :> <<result.text>>) @@ @,
                       !.response = <<"I've generated an image based on your prompt: '">>
                                    \o prompt \o
                                    <<"'. The image has been created successfully.">>],
                    cs, FALSE, 0)

\* _synthesize_response stamping the step trace before appending its own step.
SynthesizeResponseStaleTrace(st, now) ==
    LET s1 == [st EXCEPT !.processing_steps = Append(@, "response_synthesis"),
                         !.messages = Append(@, AIMessage(st.response))]
    IN [s1 EXCEPT !.metadata =
            ("session_id" :> s1.session_id) @@
            ("message_type" :> s1.message_type) @@
            ("processing_steps" :> st.processing_steps) @@
            ("total_processing_time" :> now - s1.metadata["start_time"]) @@ @]

\* _synthesize_response, entered when the clock reads `now`.
SynthesizeResponse(st, now) ==
    LET s1 == [st EXCEPT !.processing_steps = Append(@, "response_synthesis"),
                         !.messages = Append(@, AIMessage(st.response))]
    IN [s1 EXCEPT !.metadata =
            ("session_id" :> s1.session_id) @@
            ("message_type" :> s1.message_type) @@
            ("processing_steps" :> s1.processing_steps) @@
            ("total_processing_time" :> now - s1.metadata["start_time"]) @@ @]

\* The apology _handle_error writes.
ErrorResponse(error) ==
    <<"I apologize, but I encountered an error while processing your request: ">>
    \o error

\* _handle_error clearing the error it has reported.
HandleErrorClearing(st) ==
    LET s1 == [st EXCEPT !.processing_steps = Append(@, "error_handling"),
                         !.response = ErrorResponse(st.error)]
    IN [s1 EXCEPT !.messages = Append(@, AIMessage(s1.response)),
                  !.error = None]

\* _handle_error
HandleError(st) ==
    LET s1 == [st EXCEPT !.processing_steps = Append(@, "error_handling"),
                         !.response = ErrorResponse(st.error)]
    IN [s1 EXCEPT !.messages = Append(@, AIMessage(s1.response))]

\* process_message returning the final state without its error.
EnvelopeWithoutError(final_state) ==
    [ response |-> final_state.response,
      session_id |-> final_state.session_id,
      message_type |-> final_state.message_type,
      metadata |-> final_state.metadata,
      error |-> None ]

\* process_message: the dict returned when ainvoke returned final_state.
Envelope(final_state) ==
    [ response |-> final_state.response,
      session_id |-> final_state.session_id,
      message_type |-> final_state.message_type,
      metadata |-> final_state.metadata,
      error |-> final_state.error ]

\* process_message's except branch always drawing a new session id.
ExceptionEnvelopeNewSession(a, e, n) ==
    [ response |-> <<"I apologize, but I encountered an error: ">> \o e,
      session_id |-> Uuid4(n),
      message_type |-> a.message_type,
      metadata |-> ("error" :> e),
      error |-> e ]

\* process_message: the dict returned when ainvoke raised e.
ExceptionEnvelope(a, e, n) ==
    [ response |-> <<"I apologize, but I encountered an error: ">> \o e,
      session_id |-> Or(a.session_id, Uuid4(n)),
      message_type |-> a.message_type,
      metadata |-> ("error" :> e),
      error |-> e ]

\* ----------------------------------------------------------------- actions

NoArgs ==
    [question |-> << >>, image_url |-> None, image_data |-> None,
     session_id |-> None, message_type |-> "text"]

NoCall ==
    [chain |-> "", inputs |-> << >>, sent |-> None, raised |-> FALSE,
     msg |-> << >>, output |-> << >>]

\* The four get_* functions, each with its module-level global.
Getters == {"get_multimodal_chain", "get_image_analysis_chain",
            "get_conversational_chain", "get_image_generation_chain"}
Threads == 1..GetterThreads

\* The module right after import: every global is None (0), no thread is
\* inside a getter.
NoInstances ==
    [ global |-> [g \in Getters |-> 0],
      created |-> [g \in Getters |-> 0],
      returned |-> [g \in Getters |-> {}],
      at |-> [t \in Threads |-> "idle"],
      getter |-> [t \in Threads |-> "get_multimodal_chain"],
      local |-> [t \in Threads |-> 0],
      entered |-> 0 ]

\* No call of resize_image yet.
NoResize ==
    [ called |-> FALSE, image |-> CorruptBytes, max_width |-> MAX_WIDTH,
      max_height |-> MAX_HEIGHT, target |-> <<0, 0>>, output |-> CorruptBytes ]

NoExchange ==
    [endpoint |-> "", request |-> NoArgs, status |-> 0, detail |-> None]

NoEnvelope ==
    [response |-> None, session_id |-> None, message_type |-> "text",
     metadata |-> << >>, error |-> None]

Init ==
    /\ pc = "idle"
    /\ args = NoArgs
    /\ state = InitialState(<< >>, None, None, None, "text", 0, 0)
    /\ envelope = NoEnvelope
    /\ calls = << >>
    /\ uuids = 0
    /\ clock = 0
    /\ failures = << >>
    /\ decision = ""
    /\ http = NoExchange
    /\ conversation_history = << >>
    /\ chain_calls = 0
    /\ last_call = NoCall
    /\ singletons = NoInstances
    /\ resize = NoResize

\* process_message is called: the initial state is built and the graph starts.
ProcessMessage ==
    /\ pc = "idle"
    /\ \E question \in Questions, image_url \in ImageUrls,
          image_data \in InlineImages, session_id \in SessionIds,
          message_type \in MessageTypes :
          /\ args' = [question |-> question, image_url |-> image_url,
                      image_data |-> image_data, session_id |-> session_id,
                      message_type |-> message_type]
          /\ state' = InitialState(question, image_url, image_data, session_id,
                                   message_type, uuids + 1, clock)
          /\ uuids' = IF Truthy(session_id) THEN uuids ELSE uuids + 1
    /\ pc' = "input_processing"
    /\ clock' = clock + 1
    /\ UNCHANGED outsideGraph
    /\ UNCHANGED <<envelope, calls, failures, decision>>

InputProcessing ==
    /\ pc = "input_processing"
    /\ \E fetched \in FetchResults :
          LET o == ProcessInput(state, fetched)
          IN /\ state' = o.st
             /\ calls' = calls \o o.calls
             /\ failures' = IF o.failed THEN Append(failures, pc) ELSE failures
    /\ pc' = NextNode(pc)
    /\ clock' = clock + 1
    /\ UNCHANGED outsideGraph
    /\ UNCHANGED <<args, envelope, uuids, decision>>

Routing ==
    /\ pc = "route_request"
    /\ state' = RouteRequest(state)
    /\ decision' = RouteDecision(state')
    /\ pc' = ConditionalEdge(decision')
    /\ clock' = clock + 1
    /\ UNCHANGED outsideGraph
    /\ UNCHANGED <<args, envelope, calls, uuids, failures>>

\* A node's outcome becomes the new state and the graph follows the node's edge.
Finish(o) ==
    /\ state' = o.st
    /\ calls' = calls \o o.calls
    /\ failures' = IF o.failed THEN Append(failures, pc) ELSE failures
    /\ uuids' = uuids + o.drawn
    /\ pc' = NextNode(pc)
    /\ clock' = clock + 1
    /\ UNCHANGED outsideGraph
    /\ UNCHANGED <<args, envelope, decision>>

ImageAnalysis ==
    /\ pc = "image_analysis"
    /\ \E reply \in ChainReplies, reply2 \in ChainReplies :
          Finish(AnalyzeImage(state, reply, reply2, uuids + 1))

TextGeneration ==
    /\ pc = "text_generation"
    /\ \E reply \in ChainReplies : Finish(GenerateText(state, reply))

ImageGeneration ==
    /\ pc = "image_generation"
    /\ \E reply \in ChainReplies : Finish(GenerateImage(state, reply))

ResponseSynthesis ==
    /\ pc = "response_synthesis"
    /\ state' = SynthesizeResponse(state, clock)
    /\ pc' = NextNode(pc)
    /\ clock' = clock + 1
    /\ UNCHANGED outsideGraph
    /\ UNCHANGED <<args, envelope, calls, uuids, failures, decision>>

ErrorHandling ==
    /\ pc = "error_handling"
    /\ state' = HandleError(state)
    /\ pc' = NextNode(pc)
    /\ clock' = clock + 1
    /\ UNCHANGED outsideGraph
    /\ UNCHANGED <<args, envelope, calls, uuids, failures, decision>>

\* ainvoke returned: process_message builds the envelope from the final state.
ReturnEnvelope ==
    /\ pc = "END"
    /\ envelope' = Envelope(state)
    /\ pc' = "done"
    /\ UNCHANGED outsideGraph
    /\ UNCHANGED <<args, state, calls, uuids, clock, failures, decision>>

\* ainvoke raised: process_message's except branch builds the envelope.
GraphExecutionError ==
    /\ pc \in GraphNodes
    /\ \E e \in GraphErrors :
          envelope' = ExceptionEnvelope(args, e, uuids + 1)
    /\ uuids' = IF Truthy(args.session_id) THEN uuids ELSE uuids + 1
    /\ failures' = Append(failures, "graph")
    /\ pc' = "done"
    /\ UNCHANGED outsideGraph
    /\ UNCHANGED <<args, state, calls, clock, decision>>

GraphStep ==
    \/ InputProcessing
    \/ Routing
    \/ ImageAnalysis
    \/ TextGeneration
    \/ ImageGeneration
    \/ ResponseSynthesis
    \/ ErrorHandling
    \/ ReturnEnvelope

Next ==
    \/ ProcessMessage
    \/ InputProcessing
    \/ Routing
    \/ ImageAnalysis
    \/ TextGeneration
    \/ ImageGeneration
    \/ ResponseSynthesis
    \/ ErrorHandling
    \/ ReturnEnvelope
    \/ GraphExecutionError

Spec == Init /\ [][Next]_vars

\* _process_input called once more on the state its first call returned.
InputProcessingAgain ==
    /\ pc = "route_request"
    /\ Len(state.processing_steps) = 1
    /\ \E fetched \in FetchResults :
          LET o == ProcessInput(state, fetched)
          IN /\ state' = o.st
             /\ calls' = calls \o o.calls
             /\ failures' = IF o.failed THEN Append(failures, "input_processing")
                            ELSE failures
    /\ clock' = clock + 1
    /\ UNCHANGED outsideGraph
    /\ UNCHANGED <<pc, args, envelope, uuids, decision>>

NodeNext ==
    \/ ProcessMessage
    \/ InputProcessing
    \/ InputProcessingAgain

\* The input-processing node driven directly, once or twice per state.
NodeSpec == Init /\ [][NodeNext]_vars

\* resize_image called directly on an image of any size with any box.
ResizeImage ==
    /\ \E width \in 1..MaxSide, height \in 1..MaxSide,
          max_width \in 1..MaxSide, max_height \in 1..MaxSide :
          LET b == <<"png", width, height, 0>>
          IN resize' =
                [ called |-> TRUE,
                  image |-> b,
                  max_width |-> max_width,
                  max_height |-> max_height,
                  target |-> IF width > max_width \/ height > max_height
                             THEN ResizeTarget(width, height, max_width, max_height)
                             ELSE <<width, height>>,
                  output |-> resize_image(b, max_width, max_height) ]
    /\ UNCHANGED chainVars
    /\ UNCHANGED <<pc, args, state, envelope, calls, uuids, clock, failures,
                   decision, http>>

\* The image utility driven directly.
ResizeSpec == Init /\ [][ResizeImage]_vars

\* ---------------------------------------------------------------- chains

MAX_HISTORY_LENGTH == 10
CONTEXT_MESSAGES == 5

\* s[-n:]
LastN(s, n) == IF Len(s) > n THEN SubSeq(s, Len(s) - n + 1, Len(s)) ELSE s

\* sep.join(parts)
RECURSIVE Join(_, _)
Join(parts, sep) ==
    IF parts = << >> THEN << >>
    ELSE IF Len(parts) = 1 THEN parts[1]
    ELSE parts[1] \o sep \o Join(Tail(parts), sep)

\* What self.llm.invoke(prompt).content can do.
LlmReplies ==
    { [raised |-> FALSE, text |-> <<"model reply">>, msg |-> << >>],
      [raised |-> TRUE, text |-> << >>, msg |-> <<"ThrottlingException">>] }

\* ConversationalChain._call taking the context from the oldest entries.
ConversationContextOldest(history) ==
    LET recent == IF Len(history) > CONTEXT_MESSAGES
                  THEN SubSeq(history, 1, CONTEXT_MESSAGES) ELSE history
    IN Join([i \in 1..Len(recent) |->
                <<(IF recent[i][1] = "human" THEN "User" ELSE "Assistant"), ": ">>
                \o recent[i][2]],
            <<"\n">>)

\* ConversationalChain._call: the context built from the history.
ConversationContext(history) ==
    LET recent == LastN(history, CONTEXT_MESSAGES)
    IN Join([i \in 1..Len(recent) |->
                <<(IF recent[i][1] = "human" THEN "User" ELSE "Assistant"), ": ">>
                \o recent[i][2]],
            <<"\n">>)

\* ConversationalChain._call without the trimming of the history.
ConversationalChainCallUntrimmed(history, message, session_id, reply) ==
    LET h1 == Append(history, HumanMessage(message))
        prompt == <<"Conversation context:\n">> \o ConversationContext(h1) \o
                  <<"\n\nPlease respond to the latest message.">>
        h3 == IF reply.raised THEN h1 ELSE Append(h1, AIMessage(reply.text))
    IN [ history |-> h3,
         sent |-> prompt,
         raised |-> reply.raised,
         msg |-> reply.msg,
         output |-> reply.text ]

\* ConversationalChain._call on a chain whose history is `history`: the
\* history it leaves, the prompt it sends, and what it returns or raises.
ConversationalChainCall(history, message, session_id, reply) ==
    LET h1 == Append(history, HumanMessage(message))
        h2 == IF Len(h1) > MAX_HISTORY_LENGTH
              THEN LastN(h1, MAX_HISTORY_LENGTH) ELSE h1
        prompt == <<"Conversation context:\n">> \o ConversationContext(h2) \o
                  <<"\n\nPlease respond to the latest message.">>
        h3 == IF reply.raised THEN h2 ELSE Append(h2, AIMessage(reply.text))
    IN [ history |-> h3,
         sent |-> prompt,
         raised |-> reply.raised,
         msg |-> reply.msg,
         output |-> reply.text ]

\* ImageGenerationChain.generation_prompts; "{prompt}" and "{style}" are the
\* replacement fields of the templates.
generation_prompts ==
    [ enhance |-> <<"Create a detailed, high-quality version of: ", "{prompt}">>,
      artistic |-> <<"Create an artistic interpretation of: ", "{prompt}">>,
      realistic |-> <<"Create a photorealistic image of: ", "{prompt}">>,
      abstract |-> <<"Create an abstract representation of: ", "{prompt}">>,
      style_transfer |->
          <<"Create an image in the style of ", "{style}", ": ", "{prompt}">> ]

\* The replacement field an atom of a template names ("" for plain text).
FieldOf(atom) ==
    CASE atom = "{prompt}" -> "prompt"
      [] atom = "{style}" -> "style"
      [] OTHER -> ""

\* str.format(**kwargs): a field without a keyword argument raises KeyError.
Format(template, kwargs) ==
    LET missing == { i \in DOMAIN template :
                        FieldOf(template[i]) \notin {""} \cup DOMAIN kwargs }
        first == CHOOSE i \in missing : \A j \in missing : i <= j
    IN IF missing # {}
       THEN [raised |-> TRUE, msg |-> KeyError(FieldOf(template[first])), text |-> << >>]
       ELSE [raised |-> FALSE, msg |-> << >>,
             text |-> Join([i \in DOMAIN template |->
                              IF FieldOf(template[i]) = "" THEN <<template[i]>>
                              ELSE kwargs[FieldOf(template[i])]],
                           << >>)]

\* ImageGenerationChain._call with an unknown type given the realistic
\* template.
EnhancePromptDefaultRealistic(prompt, generation_type, style) ==
    LET key == IF generation_type \in DOMAIN generation_prompts
               THEN generation_type ELSE "realistic"
    IN IF key = "style_transfer" /\ Truthy(style)
       THEN Format(generation_prompts[key],
                   ("prompt" :> prompt) @@ ("style" :> style))
       ELSE Format(generation_prompts[key], ("prompt" :> prompt))

\* ImageGenerationChain._call: the prompt expansion.
EnhancePrompt(prompt, generation_type, style) ==
    IF generation_type \in DOMAIN generation_prompts
    THEN IF generation_type = "style_transfer" /\ Truthy(style)
         THEN Format(generation_prompts[generation_type],
                     ("prompt" :> prompt) @@ ("style" :> style))
         ELSE Format(generation_prompts[generation_type], ("prompt" :> prompt))
    ELSE [raised |-> FALSE, msg |-> << >>, text |-> prompt]

\* ImageGenerationChain._call: what it sends to bedrock_service.generate_image
\* and what it returns or raises.
ImageGenerationChainCall(prompt, generation_type, style, reply) ==
    LET enhanced == EnhancePrompt(prompt, generation_type, style)
    IN IF enhanced.raised
       THEN [sent |-> None, raised |-> TRUE, msg |-> enhanced.msg, output |-> << >>]
       ELSE [sent |-> enhanced.text, raised |-> reply.raised, msg |-> reply.msg,
             output |-> reply.text]

ChainMessages == { <<"hello">>, <<"what is 2+2?">> }
ChainSessions == { <<"session-1">>, <<"session-2">> }
ChainPrompts == { <<"a castle">>, << >> }
GenerationTypes == DOMAIN generation_prompts \cup {"cartoon"}
Styles == { << >>, <<"cubism">> }

\* get_conversational_chain().run({"message": ..., "session_id": ...})
ConversationalCall ==
    /\ chain_calls < MaxChainCalls
    /\ \E message \in ChainMessages, session_id \in ChainSessions,
          reply \in LlmReplies :
          LET r == ConversationalChainCall(conversation_history, message,
                                           session_id, reply)
          IN /\ conversation_history' = r.history
             /\ last_call' = [chain |-> "conversational",
                              inputs |-> [message |-> message,
                                          session_id |-> session_id],
                              sent |-> r.sent, raised |-> r.raised,
                              msg |-> r.msg, output |-> r.output]
    /\ chain_calls' = chain_calls + 1
    /\ UNCHANGED singletons
    /\ UNCHANGED requestVars

\* get_image_generation_chain().run({"prompt": ..., "generation_type": ...,
\* "style": ..., "model_name": ...})
ImageGenerationCall ==
    /\ \E prompt \in ChainPrompts, generation_type \in GenerationTypes,
          style \in Styles, reply \in LlmReplies :
          LET r == ImageGenerationChainCall(prompt, generation_type, style, reply)
          IN last_call' = [chain |-> "image_generation",
                           inputs |-> [prompt |-> prompt,
                                       generation_type |-> generation_type,
                                       style |-> style],
                           sent |-> r.sent, raised |-> r.raised,
                           msg |-> r.msg, output |-> r.output]
    /\ UNCHANGED <<conversation_history, chain_calls, singletons>>
    /\ UNCHANGED requestVars

ChainNext ==
    \/ ConversationalCall
    \/ ImageGenerationCall

\* The chain objects as their callers drive them.
ChainSpec == Init /\ [][ChainNext]_vars

\* A step of a thread inside a getter changes the module's globals only.
GetterStep(new) ==
    /\ singletons' = new
    /\ UNCHANGED <<conversation_history, chain_calls, last_call>>
    /\ UNCHANGED requestVars

\* A thread calls one of the get_* functions.
EnterGetter(t) ==
    /\ singletons.at[t] = "idle"
    /\ singletons.entered < MaxGetterCalls
    /\ \E g \in Getters :
          GetterStep([singletons EXCEPT !.at[t] = "test", !.getter[t] = g,
                                        !.entered = @ + 1])

\* `if <global> is None:`
TestGlobal(t) ==
    /\ singletons.at[t] = "test"
    /\ GetterStep([singletons EXCEPT !.at[t] =
            IF singletons.global[singletons.getter[t]] = 0
            THEN "create" ELSE "return"])

\* `create_..._chain()`: a new instance, numbered in order of creation.
CreateChain(t) ==
    /\ singletons.at[t] = "create"
    /\ LET g == singletons.getter[t]
       IN GetterStep([singletons EXCEPT !.created[g] = @ + 1,
                                        !.local[t] = singletons.created[g] + 1,
                                        !.at[t] = "assign"])

\* `<global> = ` the instance just created.
AssignGlobal(t) ==
    /\ singletons.at[t] = "assign"
    /\ GetterStep([singletons EXCEPT !.global[singletons.getter[t]] =
                                           singletons.local[t],
                                      !.at[t] = "return"])

\* `return <global>`
ReturnGlobal(t) ==
    /\ singletons.at[t] = "return"
    /\ LET g == singletons.getter[t]
       IN GetterStep([singletons EXCEPT !.returned[g] =
                                            @ \cup {singletons.global[g]},
                                        !.at[t] = "idle"])

GetterNext ==
    \/ \E t \in Threads : EnterGetter(t)
    \/ \E t \in Threads : TestGlobal(t)
    \/ \E t \in Threads : CreateChain(t)
    \/ \E t \in Threads : AssignGlobal(t)
    \/ \E t \in Threads : ReturnGlobal(t)

\* The get_* functions called from threads that run side by side.
GetterSpec == Init /\ [][GetterNext]_vars

\* The history k answered turns leave on the chain.
PriorHistory(k) ==
    [i \in 1..(2 * k) |->
        IF i % 2 = 1 THEN HumanMessage(<<"hello">>)
        ELSE AIMessage(<<"model reply">>)]

\* A chain that has already answered some turns.
HistoryInit ==
    /\ pc = "idle"
    /\ args = NoArgs
    /\ state = InitialState(<< >>, None, None, None, "text", 0, 0)
    /\ envelope = NoEnvelope
    /\ calls = << >>
    /\ uuids = 0
    /\ clock = 0
    /\ failures = << >>
    /\ decision = ""
    /\ http = NoExchange
    /\ conversation_history \in { PriorHistory(k) : k \in 0..MaxPriorTurns }
    /\ chain_calls = 0
    /\ last_call = NoCall
    /\ singletons = NoInstances
    /\ resize = NoResize

\* One conversational chain over a long conversation.
HistorySpec == HistoryInit /\ [][ConversationalCall]_vars

\* ------------------------------------------------------- the HTTP boundary

\* str.startswith
StartsWith(v, prefix) ==
    Len(v) >= Len(prefix) /\ SubSeq(v, 1, Len(prefix)) = prefix

\* ChatRequest.validate_image_url: TRUE when the value is accepted.
validate_image_url(v) ==
    ~( Truthy(v) /\ ~( \/ StartsWith(v, <<"http://">>)
                      \/ StartsWith(v, <<"https://">>)
                      \/ StartsWith(v, <<"s3://">>) ) )

\* ChatRequest.validate_message_type with `is None` tests in place of the
\* truth values.
validate_message_type_is_none(v, values) ==
    ~( v = "multimodal" /\ values.image_url = None /\ values.image_data = None )

\* ChatRequest.validate_message_type: TRUE when the value is accepted;
\* `values` holds the fields validated before message_type.
validate_message_type(v, values) ==
    ~( v = "multimodal"
       /\ ~(Truthy(values.image_url) \/ Truthy(values.image_data)) )

\* Whether a request body makes a ChatRequest.
ValidChatRequest(r) ==
    /\ validate_image_url(r.image_url)
    /\ validate_message_type(r.message_type, r)

\* str(HTTPException(status_code, detail))
StrHTTPException(status_code, detail) == <<ToString(status_code), ": ">> \o detail

\* The bodies POST /chat/multimodal can receive.
RequestUrls == ImageUrls \cup { << >>, <<"ftp://", "host/cat.png">> }
RequestImages == InlineImages \cup { << >> }

\* process_message(...) as the endpoints call it.
CallProcessMessage(r) ==
    /\ args' = r
    /\ state' = InitialState(r.question, r.image_url, r.image_data, r.session_id,
                             r.message_type, uuids + 1, clock)
    /\ uuids' = IF Truthy(r.session_id) THEN uuids ELSE uuids + 1
    /\ pc' = "input_processing"
    /\ clock' = clock + 1
    /\ UNCHANGED chainVars
    /\ UNCHANGED resize
    /\ UNCHANGED <<envelope, calls, failures, decision>>

\* POST /chat/multimodal with a body that request validation refuses: the
\* endpoint function is not entered.
ChatRejected ==
    /\ pc = "idle"
    /\ \E question \in Questions, image_url \in RequestUrls,
          image_data \in RequestImages, session_id \in SessionIds,
          message_type \in MessageTypes :
          LET r == [question |-> question, image_url |-> image_url,
                    image_data |-> image_data, session_id |-> session_id,
                    message_type |-> message_type]
          IN /\ ~ValidChatRequest(r)
             /\ http' = [endpoint |-> "/chat/multimodal", request |-> r,
                         status |-> 422, detail |-> <<"validation error">>]
    /\ pc' = "rejected"
    /\ UNCHANGED chainVars
    /\ UNCHANGED resize
    /\ UNCHANGED <<args, state, envelope, calls, uuids, clock, failures, decision>>

\* multimodal_chat, entered with a valid ChatRequest.
MultimodalChat ==
    /\ pc = "idle"
    /\ \E question \in Questions, image_url \in RequestUrls,
          image_data \in RequestImages, session_id \in SessionIds,
          message_type \in MessageTypes :
          LET r == [question |-> question, image_url |-> image_url,
                    image_data |-> image_data, session_id |-> session_id,
                    message_type |-> message_type]
          IN /\ ValidChatRequest(r)
             /\ http' = [endpoint |-> "/chat/multimodal", request |-> r,
                         status |-> 0, detail |-> None]
             /\ CallProcessMessage(r)

\* text_chat: builds a TEXT ChatRequest and delegates to multimodal_chat.
TextChat ==
    /\ pc = "idle"
    /\ \E question \in Questions, session_id \in SessionIds :
          LET r == [question |-> question, image_url |-> None,
                    image_data |-> None, session_id |-> session_id,
                    message_type |-> "text"]
          IN /\ http' = [endpoint |-> "/chat/text", request |-> r,
                         status |-> 0, detail |-> None]
             /\ CallProcessMessage(r)

\* multimodal_chat after process_message returned `result`: the status and
\* detail it answers with. The HTTPException raised for a populated error is
\* raised inside the try block and so reaches `except Exception`.
MultimodalChatAnswer(result) ==
    IF Truthy(result.error)
    THEN [status |-> 500, detail |-> StrHTTPException(500, result.error)]
    ELSE [status |-> 200, detail |-> None]

\* text_chat around multimodal_chat: an HTTPException coming out of it
\* reaches text_chat's own `except Exception`.
TextChatAnswer(result) ==
    LET inner == MultimodalChatAnswer(result)
    IN IF inner.status = 200 THEN inner
       ELSE [status |-> 500, detail |-> StrHTTPException(inner.status, inner.detail)]

\* The endpoint answers.
Respond ==
    /\ pc = "done"
    /\ LET answer == IF http.endpoint = "/chat/text"
                     THEN TextChatAnswer(envelope)
                     ELSE MultimodalChatAnswer(envelope)
       IN http' = [http EXCEPT !.status = answer.status, !.detail = answer.detail]
    /\ pc' = "responded"
    /\ UNCHANGED chainVars
    /\ UNCHANGED resize
    /\ UNCHANGED <<args, state, envelope, calls, uuids, clock, failures, decision>>

\* settings.MAX_FILE_SIZE, in bytes.
MAX_FILE_SIZE == 10485760

ALLOWED_IMAGE_TYPES ==
    { <<"i","m","a","g","e","/","j","p","e","g">>,
      <<"i","m","a","g","e","/","p","n","g">>,
      <<"i","m","a","g","e","/","w","e","b","p">> }

\* len(image_data) of image bytes, taken as one byte per pixel.
ByteLength(b) == b[2] * b[3]

validate_image_size(image_data) == ByteLength(image_data) <= MAX_FILE_SIZE

validate_image_format(content_type) ==
    Lower(content_type) \in { Lower(mime) : mime \in ALLOWED_IMAGE_TYPES }

\* base64.b64decode of what encode_image_to_base64 produced.
decode_base64_image(base64_string) == Tail(base64_string)

\* What the body of an endpoint's try block ends with: a return, an
\* HTTPException it raises itself, or an exception out of a collaborator.
Returned == [raised |-> FALSE, http |-> FALSE, status_code |-> 200, detail |-> None]
HTTPException(status_code, detail) ==
    [raised |-> TRUE, http |-> TRUE, status_code |-> status_code, detail |-> detail]
Raised(msg) == [raised |-> TRUE, http |-> FALSE, status_code |-> 0, detail |-> msg]

\* `except Exception as e: raise HTTPException(status_code=500, detail=str(e))`
\* around an endpoint's body; HTTPException is an Exception.
ExceptException(outcome) ==
    IF outcome.raised
    THEN [status |-> 500,
          detail |-> IF outcome.http
                     THEN StrHTTPException(outcome.status_code, outcome.detail)
                     ELSE outcome.detail]
    ELSE [status |-> 200, detail |-> None]

\* A collaborator call made by an endpoint.
Collaborator(reply) == IF reply.raised THEN Raised(reply.msg) ELSE Returned

\* analyze_image: the body of its try block.
AnalyzeImageBody(request, fetched, reply) ==
    IF Truthy(request.image_url)
    THEN IF ~Truthy(fetched)
         THEN HTTPException(400, <<"Failed to download image from URL">>)
         ELSE Collaborator(reply)
    ELSE IF Truthy(request.image_data)
    THEN IF ~validate_image_size(decode_base64_image(request.image_data))
         THEN HTTPException(400, <<"Image too large">>)
         ELSE Collaborator(reply)
    ELSE HTTPException(400, <<"No image provided">>)

\* upload_image: the body of its try block.
UploadImageBody(request, reply) ==
    IF ~validate_image_format(request.content_type)
    THEN HTTPException(400, <<"Invalid image format">>)
    ELSE Collaborator(reply)

\* upload_image_direct: the body of its try block.
UploadImageDirectBody(request, reply) ==
    IF ~validate_image_format(request.content_type)
    THEN HTTPException(400, <<"Invalid image format">>)
    ELSE IF ~validate_image_size(request.file)
    THEN HTTPException(400, <<"Image too large">>)
    ELSE Collaborator(reply)

OVERSIZED == <<"png", 4096, 4096, 0>>
AnalysisImages == InlineImages \cup { encode_image_to_base64(OVERSIZED) }
UploadedFiles == { <<"png", 2048, 1024, 0>>, OVERSIZED }
ContentTypes ==
    { <<"i","m","a","g","e","/","p","n","g">>,
      <<"I","M","A","G","E","/","J","P","E","G">>,
      <<"t","e","x","t","/","p","l","a","i","n">> }
CollaboratorReplies == { r \in ChainReplies : r.raised \/ r.text # << >> }

\* An endpoint that answers within one call.
Answer(endpoint, request, answer) ==
    /\ http' = [endpoint |-> endpoint, request |-> request,
                status |-> answer.status, detail |-> answer.detail]
    /\ pc' = "responded"
    /\ UNCHANGED chainVars
    /\ UNCHANGED resize
    /\ UNCHANGED <<args, state, envelope, uuids, clock, failures, decision>>

\* POST /chat/analyze-image
AnalyzeImageEndpoint ==
    /\ pc = "idle"
    /\ \E image_url \in ImageUrls, image_data \in AnalysisImages,
          fetched \in FetchResults, reply \in CollaboratorReplies :
          LET request == [image_url |-> image_url, image_data |-> image_data,
                          prompt |-> <<"Analyze this image">>]
          IN /\ Answer("/chat/analyze-image", request,
                       ExceptException(AnalyzeImageBody(request, fetched, reply)))
             /\ calls' = IF Truthy(image_url)
                         THEN << [callee |-> "get_image_from_url", arg |-> image_url,
                                  ok |-> Truthy(fetched)] >>
                         ELSE << >>

\* POST /chat/upload-image
UploadImage ==
    /\ pc = "idle"
    /\ \E content_type \in ContentTypes, reply \in CollaboratorReplies :
          LET request == [filename |-> <<"cat.png">>, content_type |-> content_type]
          IN Answer("/chat/upload-image", request,
                    ExceptException(UploadImageBody(request, reply)))
    /\ UNCHANGED calls

\* POST /chat/upload-image-direct
UploadImageDirect ==
    /\ pc = "idle"
    /\ \E content_type \in ContentTypes, file \in UploadedFiles,
          reply \in CollaboratorReplies :
          LET request == [filename |-> <<"cat.png">>, content_type |-> content_type,
                          file |-> file]
          IN Answer("/chat/upload-image-direct", request,
                    ExceptException(UploadImageDirectBody(request, reply)))
    /\ UNCHANGED calls

\* multimodal_chat: the model_used and tokens_used of the ChatResponse it
\* builds, read from the top level of the envelope's metadata.
ChatResponse(result) ==
    [ model_used |-> IF "model_used" \in DOMAIN result.metadata
                     THEN result.metadata["model_used"] ELSE <<"claude">>,
      tokens_used |-> IF "tokens_used" \in DOMAIN result.metadata
                      THEN result.metadata["tokens_used"] ELSE None ]

\* How a call to AWS can end: done, refused by the service (botocore's
\* ClientError), or not reaching the service (any other exception).
HeadBucketOutcomes == {"found", "404", "403", "unreachable"}
CreateBucketOutcomes == {"created", "client_error", "unreachable"}
ProbeOutcomes == {"ok", "client_error", "unreachable"}

\* S3Service.create_bucket_if_not_exists: True, False, or an exception that
\* is not a ClientError and so passes both except clauses.
create_bucket_if_not_exists(head, create) ==
    CASE head = "found" -> [raised |-> FALSE, value |-> TRUE]
      [] head = "unreachable" -> [raised |-> TRUE, value |-> FALSE]
      [] head = "404" ->
           [raised |-> create = "unreachable", value |-> create = "created"]
      [] OTHER -> [raised |-> FALSE, value |-> FALSE]

\* BedrockService.generate_text_response("test", max_tokens=1): a ClientError
\* is re-raised as Exception, anything else propagates.
ProbeRaises(probe) == probe # "ok"

\* health_check: the JSON body it returns.
HealthBody(probe, head, create) ==
    <<"bedrock", (IF ProbeRaises(probe) THEN "unhealthy" ELSE "healthy"),
      "s3", (IF create_bucket_if_not_exists(head, create).raised
             THEN "unhealthy" ELSE "healthy"),
      "langgraph", "healthy">>

\* GET /chat/health
HealthCheck ==
    /\ pc = "idle"
    /\ \E probe \in ProbeOutcomes, head \in HeadBucketOutcomes,
          create \in CreateBucketOutcomes :
          Answer("/chat/health",
                 [probe |-> probe, head_bucket |-> head, create_bucket |-> create],
                 [status |-> 200, detail |-> HealthBody(probe, head, create)])
    /\ UNCHANGED calls

HttpNext ==
    \/ ChatRejected
    \/ HealthCheck
    \/ AnalyzeImageEndpoint
    \/ UploadImage
    \/ UploadImageDirect
    \/ MultimodalChat
    \/ TextChat
    \/ InputProcessing
    \/ Routing
    \/ ImageAnalysis
    \/ TextGeneration
    \/ ImageGeneration
    \/ ResponseSynthesis
    \/ ErrorHandling
    \/ ReturnEnvelope
    \/ GraphExecutionError
    \/ Respond

\* The service as its HTTP clients drive it.
HttpSpec == Init /\ [][HttpNext]_vars

\* Every node is a finite computation whose collaborator calls return or
\* fail, so a started graph keeps stepping.
LiveSpec == Spec /\ WF_vars(GraphStep)

\* ------------------------------------------------------------------ claims

Range(s) == { s[i] : i \in DOMAIN s }
Count(s, x) == Cardinality({ i \in DOMAIN s : s[i] = x })
Last(s) == s[Len(s)]

GatewayOps == {"analyze_image", "generate_text", "generate_image"}

InputFailed == "input_processing" \in Range(failures)
GraphRaised == "graph" \in Range(failures)
OperationFailed == \E n \in OperationNodes : n \in Range(failures)
FetchFailed ==
    \E i \in DOMAIN calls : calls[i].callee = "get_image_from_url" /\ ~calls[i].ok
OperationsRun == { i \in DOMAIN state.processing_steps :
                       state.processing_steps[i] \in OperationNodes }

\* The Intent Classifier's rule: first match wins.
Classify(question, hasImage) ==
    IF \E keyword \in GENERATION_KEYWORDS : Contains(Lower(question), keyword)
    THEN "image_generation"
    ELSE IF hasImage THEN "image_analysis"
    ELSE "text_generation"

\* C1: when routing finds no error set, the operation node entered is the one
\* the first-match-wins rule names (generation keyword, else image present,
\* else text), whatever requires_* flags input processing had pre-set; when an
\* error is set the decision is "error".
C1_RouteIsFirstMatch ==
    decision # "" =>
        /\ InputFailed <=> decision = "error"
        /\ ~InputFailed =>
              /\ decision = Classify(state.question, Truthy(state.image_data))
              /\ Len(state.processing_steps) >= 3 =>
                    state.processing_steps[3] = decision
              /\ Len(state.processing_steps) = 2 /\ pc # "done" => pc = decision

\* C1 witness: a drawing request with an image attached is routed to image
\* generation although input processing pre-set only requires_image_analysis.
C1_Witness ==
    /\ pc = "image_generation"
    /\ Truthy(state.image_data)
    /\ ~Contains(Lower(state.question), GENERATE_IMAGE_PHRASE)

\* C2: a run whose operation node made no failing collaborator call ends
\* through response_synthesis with error unset and a non-empty response.
C2_SuccessfulOperationAnswers ==
    ( /\ pc = "done"
      /\ ~GraphRaised
      /\ OperationsRun # {}
      /\ \A i \in DOMAIN calls : calls[i].ok )
    => /\ envelope.error = None
       /\ Truthy(envelope.response)
       /\ Last(state.processing_steps) = "response_synthesis"

\* C3: when the call made on the text-generation path raises, the envelope
\* has error set, its response is the apology embedding the raised message,
\* and the step trace ends with "error_handling".
C3_TextFailureIsHandled ==
    (pc = "done" /\ ~GraphRaised /\ "text_generation" \in Range(failures))
    => /\ Truthy(envelope.error)
       /\ envelope.response = ErrorResponse(envelope.error)
       /\ Last(state.processing_steps) = "error_handling"

\* C4: every envelope process_message returns has a non-empty response and a
\* non-empty session id.
C4_EnvelopeNonEmpty ==
    pc = "done" => Truthy(envelope.response) /\ Truthy(envelope.session_id)

\* C5: once error is set, in input processing or in an operation node, the run
\* passes through error_handling and never executes response_synthesis.
C5_ErrorShortCircuits ==
    (pc = "done" /\ ~GraphRaised /\ Truthy(state.error))
    => /\ "error_handling" \in Range(state.processing_steps)
       /\ "response_synthesis" \notin Range(state.processing_steps)

C7_EnvelopeWellFormed ==
    /\ pc \in {"idle", "END", "done"} \cup GraphNodes
    /\ pc = "done" =>
          /\ DOMAIN envelope =
                {"response", "session_id", "message_type", "metadata", "error"}
          /\ Truthy(envelope.error) <=> failures # << >>
          /\ envelope.message_type \in MessageTypes

\* C7 witness: an envelope returned after a collaborator failed.
C7_Witness ==
    /\ pc = "done"
    /\ failures # << >>
    /\ ~GraphRaised
    /\ Truthy(envelope.error)

\* C8: every started request ends (the graph reaches END or ainvoke raises and
\* the envelope is returned), and response_synthesis and error_handling lead
\* nowhere but END.
C8_ReachesEnd ==
    /\ (pc \in GraphNodes) ~> (pc \in {"END", "done"})
    /\ [][(pc \in {"response_synthesis", "error_handling"})
             => (pc' \in {pc, "END", "done"})]_vars

\* C8 witness: a run that came to END through error_handling.
C8_Witness ==
    /\ pc = "END"
    /\ Last(state.processing_steps) = "error_handling"

\* C9: routing runs exactly once; exactly one operation node runs when input
\* processing set no error and none when it did; never two operation nodes.
C9_OneRouteOneOperation ==
    /\ Count(state.processing_steps, "routing") <= 1
    /\ Cardinality(OperationsRun) <= 1
    /\ pc \in {"END", "done"} /\ ~GraphRaised =>
          /\ Count(state.processing_steps, "routing") = 1
          /\ Cardinality(OperationsRun) = IF InputFailed THEN 0 ELSE 1

\* C9 witness: a finished run that executed image_analysis and nothing else.
C9_Witness ==
    /\ pc = "done"
    /\ ~GraphRaised
    /\ ~InputFailed
    /\ "image_analysis" \in Range(state.processing_steps)

\* C10: no collaborator call is retried: each gateway operation is invoked at
\* most once, a failed collaborator call is the last call of the request, and
\* the failure shows in the envelope's error.
C10_NoRetry ==
    /\ \A op \in GatewayOps :
          Cardinality({ i \in DOMAIN calls : calls[i].callee = op }) <= 1
    /\ \A i \in DOMAIN calls : ~calls[i].ok => i = Len(calls)
    /\ pc = "done" /\ (\E i \in DOMAIN calls : ~calls[i].ok) =>
          Truthy(envelope.error)

\* C10 witness: the envelope of a request whose image fetch failed.
C10_Witness ==
    /\ pc = "done"
    /\ Len(calls) = 1
    /\ ~calls[1].ok
    /\ envelope.error = <<"Failed to process image from URL">>

\* C11: a request with inline image data, a question without generation
\* keyword and no session id, none of whose collaborator calls fails, gets a
\* fresh session id, and its envelope's metadata holds the step trace
\* input_processing, routing, image_analysis, response_synthesis, with a
\* response that is not None.
C11_ImageAnalysisTrace ==
    ( /\ pc = "done"
      /\ ~GraphRaised
      /\ Truthy(args.image_data)
      /\ Classify(args.question, TRUE) = "image_analysis"
      /\ ~Truthy(args.session_id)
      /\ \A i \in DOMAIN calls : calls[i].ok )
    => /\ envelope.session_id \in { Uuid4(n) : n \in 1..uuids }
       /\ "processing_steps" \in DOMAIN envelope.metadata
       /\ envelope.metadata["processing_steps"] =
             <<"input_processing", "routing", "image_analysis", "response_synthesis">>
       /\ envelope.response # None

\* C11 witness: the envelope of such a request.
C11_Witness ==
    /\ pc = "done"
    /\ ~GraphRaised
    /\ args.image_data # None
    /\ args.image_url = None
    /\ args.session_id = None
    /\ args.question = <<"h","i">>
    /\ "image_analysis" \in Range(state.processing_steps)

\* C12: a run of image_analysis calls the gateway's analyze-image first, with
\* a prompt embedding the question; exactly when that call succeeds one
\* text-generation call follows, with a prompt holding the question and the
\* analysis text, and its result is the response.
C12_AnalysisThenText ==
    ( /\ pc = "done"
      /\ ~GraphRaised
      /\ "image_analysis" \in Range(state.processing_steps)
      /\ Truthy(state.image_data) )
    => /\ Len(calls) >= 1
       /\ \E i \in DOMAIN calls :
             /\ calls[i].callee = "analyze_image"
             /\ Contains(calls[i].arg[2], state.question)
             /\ \A j \in DOMAIN calls :
                   calls[j].callee = "generate_text" => j = i + 1 /\ calls[i].ok
             /\ calls[i].ok =>
                   /\ Len(calls) = i + 1
                   /\ calls[i + 1].callee = "generate_text"
                   /\ Contains(calls[i + 1].arg, state.question)

\* C18: the metadata of every envelope built from a final state holds the full
\* step trace and the total processing time, whether the run ended through
\* response_synthesis or through error_handling.
C18_MetadataHasTrace ==
    (pc = "done" /\ ~GraphRaised)
    => /\ "processing_steps" \in DOMAIN envelope.metadata
       /\ "total_processing_time" \in DOMAIN envelope.metadata
       /\ envelope.metadata["processing_steps"] = state.processing_steps
       /\ Last(state.processing_steps) \in {"response_synthesis", "error_handling"}

\* C19: a non-empty session id supplied with the request is never changed and
\* is the envelope's session id on every path; without one, the state and the
\* envelope carry a non-empty generated id.
C19_SessionIdKept ==
    /\ pc \notin {"idle"} =>
          IF Truthy(args.session_id)
          THEN state.session_id = args.session_id
          ELSE state.session_id \in { Uuid4(n) : n \in 1..uuids }
    /\ pc = "done" =>
          IF Truthy(args.session_id)
          THEN envelope.session_id = args.session_id
          ELSE /\ Truthy(envelope.session_id)
               /\ envelope.session_id \in { Uuid4(n) : n \in 1..uuids }

\* C19 witness: the except branch returns the caller's session id.
C19_Witness ==
    /\ pc = "done"
    /\ GraphRaised
    /\ args.session_id = <<"session-1">>
    /\ envelope.session_id = <<"session-1">>

\* C20: process_image_for_bedrock fails for bytes that do not decode: input
\* processing never stores an encoded image for them.
C20_NormalizerRejectsUndecodable ==
    \A i \in DOMAIN calls :
        (calls[i].callee = "process_image_for_bedrock" /\ ~Decodable(calls[i].arg))
        => /\ ~calls[i].ok
           /\ Truthy(state.error)
           /\ state.image_data # encode_image_to_base64(calls[i].arg)

\* C14: when the envelope's error is populated, POST /chat/multimodal and
\* POST /chat/text answer 500 with the envelope's error string as detail.
C14_ErrorIs500WithDetail ==
    (pc = "responded" /\ Truthy(envelope.error))
    => /\ http.status = 500
       /\ http.detail = envelope.error

\* C15: a chat request declaring MULTIMODAL with neither image_url nor
\* image_data is refused by request validation: process_message is not called
\* and no collaborator is contacted.
C15_MultimodalNeedsImage ==
    ( /\ http.endpoint = "/chat/multimodal"
      /\ http.request.message_type = "multimodal"
      /\ ~Truthy(http.request.image_url)
      /\ ~Truthy(http.request.image_data) )
    => /\ pc = "rejected"
       /\ http.status = 422
       /\ args = NoArgs
       /\ calls = << >>
       /\ state.processing_steps = << >>

\* C15 witness: a MULTIMODAL body with empty image fields has been refused.
C15_Witness ==
    /\ pc = "rejected"
    /\ http.request.message_type = "multimodal"
    /\ http.request.image_url = << >>
    /\ http.request.image_data = None
    /\ calls = << >>

\* The prompt ConversationalChain._call would send for `message` alone.
OwnPrompt(message) ==
    <<"Conversation context:\n", "User", ": ">> \o message \o
    <<"\n\nPlease respond to the latest message.">>

\* C13: no mutable state is shared between requests: the prompt sent for a
\* request depends only on that request's own fields, never on the questions
\* or replies of another session.  Stated on two successive conversational
\* calls of different sessions: the second one's prompt is built from its own
\* message alone.
C13_PromptFromOwnRequest ==
    [][(/\ chain_calls' = chain_calls + 1
        /\ last_call.chain = "conversational"
        /\ last_call'.inputs.session_id # last_call.inputs.session_id)
       => (last_call'.sent = OwnPrompt(last_call'.inputs.message))]_vars

\* C16: image generation with type style_transfer and an empty style does not
\* fail on template substitution: the prompt sent to the gateway is the input
\* prompt unchanged.
C16_EmptyStyleFallsBack ==
    (/\ last_call.chain = "image_generation"
     /\ last_call.inputs.generation_type = "style_transfer"
     /\ last_call.inputs.style = << >>)
    => (last_call.sent = last_call.inputs.prompt)

\* A style_transfer call with a style, or a call of any other type.
ExpansionCase ==
    /\ last_call.chain = "image_generation"
    /\ (last_call.inputs.generation_type = "style_transfer"
        => last_call.inputs.style # << >>)

\* C17: prompt expansion in image generation: for enhance, artistic, realistic
\* and abstract the prompt sent is the type's fixed template with the prompt
\* substituted; for style_transfer with a non-empty style both style and
\* prompt are substituted; for a type outside the five templates the prompt
\* is sent unmodified.
C17_PromptExpansion ==
    ExpansionCase =>
        LET t == last_call.inputs.generation_type
            prompt == last_call.inputs.prompt
            style == last_call.inputs.style
        IN last_call.sent =
                CASE t = "enhance" ->
                       <<"Create a detailed, high-quality version of: ">> \o prompt
                  [] t = "artistic" ->
                       <<"Create an artistic interpretation of: ">> \o prompt
                  [] t = "realistic" ->
                       <<"Create a photorealistic image of: ">> \o prompt
                  [] t = "abstract" ->
                       <<"Create an abstract representation of: ">> \o prompt
                  [] t = "style_transfer" ->
                       <<"Create an image in the style of ">> \o style \o
                       <<": ">> \o prompt
                  [] OTHER -> prompt

\* A call with a type outside the five templates reached the gateway.
C17_Witness ==
    /\ last_call.chain = "image_generation"
    /\ last_call.inputs.generation_type \notin DOMAIN generation_prompts
    /\ last_call.inputs.prompt # << >>
    /\ last_call.sent = last_call.inputs.prompt
    /\ ~last_call.raised

IsPrefix(s, t) == Len(s) <= Len(t) /\ s = SubSeq(t, 1, Len(s))

\* The step traces of the workflow's paths.
WorkflowPaths ==
    { <<"input_processing", "routing", x, "response_synthesis">> :
          x \in OperationNodes }
    \cup { <<"input_processing", "routing", "error_handling">> }

\* C22: within one request the steps run one after another with no fan-out:
\* in every state the step trace is a prefix of input_processing, routing, X,
\* response_synthesis (X one operation node) or of input_processing, routing,
\* error_handling; no step appears twice and input_processing is first. The
\* node about to run is the one node that continues the trace.
C22_StepsAreOnePath ==
    /\ \E path \in WorkflowPaths : IsPrefix(state.processing_steps, path)
    /\ \A x \in Range(state.processing_steps) :
          Count(state.processing_steps, x) = 1
    /\ state.processing_steps # << >> =>
          state.processing_steps[1] = "input_processing"
    /\ pc \in GraphNodes =>
          \E path \in WorkflowPaths :
              IsPrefix(Append(state.processing_steps,
                              IF pc = "route_request" THEN "routing" ELSE pc),
                       path)

\* C22 witness: a run that went through error_handling has finished.
C22_Witness ==
    /\ pc = "done"
    /\ ~GraphRaised
    /\ state.processing_steps = <<"input_processing", "routing", "error_handling">>

NO_IMAGE_DATA == <<"No image data available for analysis">>

\* C23: image_analysis is entered only with image data in the state: routing
\* never selects it for a request without image data, and the node's guard
\* "No image data available for analysis" never sets the error.
C23_AnalysisHasImage ==
    /\ decision = "image_analysis" => Truthy(state.image_data)
    /\ pc = "image_analysis" => Truthy(state.image_data)
    /\ "image_analysis" \in Range(state.processing_steps) =>
          Truthy(state.image_data)
    /\ state.error # NO_IMAGE_DATA
    /\ pc = "done" => envelope.error # NO_IMAGE_DATA

\* C23 witness: image_analysis has run on a state holding image data, for a
\* request that came with an image URL only.
C23_Witness ==
    /\ "image_analysis" \in Range(state.processing_steps)
    /\ args.image_data = None
    /\ Truthy(state.image_data)

\* C24: for every request carrying an image, by URL or inline, the image in
\* the state that image_analysis hands to the analyze-image call is the
\* output of process_image_for_bedrock applied in input processing, never the
\* caller's raw inline data.
C24_AnalysedImageIsNormalized ==
    pc = "image_analysis" =>
        \E i \in DOMAIN calls :
            /\ calls[i].callee = "process_image_for_bedrock"
            /\ state.image_data = process_image_for_bedrock(calls[i].arg)

\* The messages a collaborator failure carries.
ProviderMessages == { r.msg : r \in { x \in ChainReplies : x.raised } }

SecondInputRun ==
    /\ state.processing_steps = <<"input_processing">>
    /\ state'.processing_steps = <<"input_processing", "input_processing">>

\* The download of the second run failed, or returned the body the first
\* run's download returned.
SameDownload ==
    \/ ~Last(calls').ok
    \/ /\ Last(calls').callee = "process_image_for_bedrock"
       /\ Last(calls).callee = "process_image_for_bedrock"
       /\ Last(calls').arg = Last(calls).arg

Min(a, b) == IF a <= b THEN a ELSE b

\* A step that is one call of ConversationalChain._call.
ConversationalStep ==
    /\ chain_calls' = chain_calls + 1
    /\ last_call'.chain = "conversational"

\* C26: on every ConversationalChain call the prompt sent holds at most the 5
\* most recent history entries, in chronological order, each prefixed with
\* "User" or "Assistant" according to its author, and the last entry is the
\* message of the current call.  A prompt is the header, then per entry the
\* label, ": " and the content, entries separated by "\n", then the footer.
C26_PromptHasLastFive ==
    [][ConversationalStep =>
          LET h == Append(conversation_history,
                          <<"human", last_call'.inputs.message>>)
              k == Min(5, Len(h))
              sent == last_call'.sent
              entry(j) == h[Len(h) - k + j]
          IN /\ Len(sent) = 4 * k + 1
             /\ sent[1] = "Conversation context:\n"
             /\ sent[Len(sent)] = "\n\nPlease respond to the latest message."
             /\ \A j \in 1..k :
                   /\ sent[4 * j - 2] =
                        (IF entry(j)[1] = "human" THEN "User" ELSE "Assistant")
                   /\ sent[4 * j - 1] = ": "
                   /\ <<sent[4 * j]>> = entry(j)[2]
                   /\ j < k => sent[4 * j + 1] = "\n"
             /\ sent[4 * k - 2] = "User"
             /\ <<sent[4 * k]>> = last_call'.inputs.message]_vars

\* C26 witness: a call on a chain with more than five entries behind it sent
\* a prompt of exactly five entries.
C26_Witness ==
    /\ last_call.chain = "conversational"
    /\ Len(conversation_history) >= 8
    /\ Len(last_call.sent) = 21
    /\ last_call.sent[2] = "Assistant"

\* C27: after any sequence of ConversationalChain calls, successful or
\* failing, the history never holds more than max_history_length + 1 entries.
C27_HistoryBounded ==
    /\ Len(conversation_history) <= MAX_HISTORY_LENGTH + 1
    /\ last_call.chain = "conversational" /\ last_call.raised =>
          Len(conversation_history) <= MAX_HISTORY_LENGTH

\* C27 witness: a call has trimmed the history and appended its reply.
C27_Witness ==
    /\ chain_calls > 0
    /\ Len(conversation_history) = MAX_HISTORY_LENGTH + 1
    /\ conversation_history[1][1] = "ai"

\* C28: the history strictly alternates user and assistant entries after any
\* sequence of calls: a call whose model invocation fails leaves the history
\* exactly as it was before the call.
C28_FailedCallLeavesHistory ==
    [][ConversationalStep =>
          /\ last_call'.raised => conversation_history' = conversation_history
          /\ \A i \in 1..(Len(conversation_history') - 1) :
                conversation_history'[i][1] # conversation_history'[i + 1][1]]_vars

\* The detail of the client-input failure an answered request ran into, None
\* when it ran into none.
ClientFailure ==
    LET r == http.request
    IN CASE http.endpoint = "/chat/analyze-image" ->
              IF Truthy(r.image_url)
              THEN IF ~calls[1].ok
                   THEN <<"Failed to download image from URL">> ELSE None
              ELSE IF Truthy(r.image_data)
              THEN IF r.image_data = encode_image_to_base64(OVERSIZED)
                   THEN <<"Image too large">> ELSE None
              ELSE <<"No image provided">>
         [] http.endpoint = "/chat/upload-image" ->
              IF Lower(r.content_type) \notin ALLOWED_IMAGE_TYPES
              THEN <<"Invalid image format">> ELSE None
         [] http.endpoint = "/chat/upload-image-direct" ->
              IF Lower(r.content_type) \notin ALLOWED_IMAGE_TYPES
              THEN <<"Invalid image format">>
              ELSE IF r.file = OVERSIZED THEN <<"Image too large">> ELSE None
         [] OTHER -> None

\* C30: client-input failures detected inside the endpoints reach the client
\* with status 400 and their own detail text: analyze-image with no image,
\* with an undownloadable URL or with oversized inline data; upload-image and
\* upload-image-direct with a disallowed content type or an oversized file.
C30_ClientFailureIs400 ==
    (pc = "responded" /\ ClientFailure # None)
    => /\ http.status = 400
       /\ http.detail = ClientFailure

\* C29: each lazily-initialised chain getter creates at most one instance
\* over the life of the process and returns that same instance on every
\* call, also when first calls of concurrently running requests interleave.
C29_OneInstancePerGetter ==
    \A g \in Getters :
        /\ singletons.created[g] <= 1
        /\ Cardinality(singletons.returned[g]) <= 1
        /\ 0 \notin singletons.returned[g]

\* C31: GET /chat/health never fails because a collaborator is unreachable:
\* it answers 200, reports bedrock healthy only if the probe text-generation
\* call succeeded and s3 healthy only if the bucket was found or successfully
\* created; otherwise the service is reported unhealthy.
C31_HealthReportsCollaborators ==
    (pc = "responded" /\ http.endpoint = "/chat/health")
    => /\ http.status = 200
       /\ http.detail[2] =
            (IF http.request.probe = "ok" THEN "healthy" ELSE "unhealthy")
       /\ http.detail[4] =
            (IF \/ http.request.head_bucket = "found"
                \/ /\ http.request.head_bucket = "404"
                   /\ http.request.create_bucket = "created"
             THEN "healthy" ELSE "unhealthy")

C33_ErrorMonotonic ==
    [][/\ (pc' = "input_processing") => (state'.error = None)
       /\ (pc \in GraphNodes /\ Truthy(state.error)) => (state'.error = state.error)
       /\ (pc = "END" /\ pc' = "done") => (envelope'.error = state.error)]_vars

\* C33 witness: the error an operation node set is still there after
\* response_synthesis and is the envelope's error.
C33_Witness ==
    /\ pc = "done"
    /\ ~GraphRaised
    /\ failures = <<"image_generation">>
    /\ Last(state.processing_steps) = "response_synthesis"
    /\ envelope.error = NameError("image_generation_chain")

\* An image URL was fetched and normalized in input processing.
UrlImageNormalized ==
    \E i \in DOMAIN calls : calls[i].callee = "process_image_for_bedrock"

C35_ResizeFitsBox ==
    resize.called =>
        IF resize.image[2] > resize.max_width \/ resize.image[3] > resize.max_height
        THEN /\ resize.target[1] \in 1..resize.max_width
             /\ resize.target[2] \in 1..resize.max_height
             /\ resize.output[2] = resize.target[1]
             /\ resize.output[3] = resize.target[2]
        ELSE /\ resize.output[2] = resize.image[2]
             /\ resize.output[3] = resize.image[3]

====
